---- MODULE Spec2Model ----
(***************************************************************************)
(* URL shortener: link registry (create_link), redirect pipeline           *)
(* (redirect_to_original_url, validate_click, record_click) and analytics  *)
(* (get_analytics, get_links_with_stats) over the links and clicks tables. *)
(* Every HTTP request is a coroutine with its own locals; coroutines       *)
(* interleave at their awaits on the database and on the fraud check, so   *)
(* each action below is the code between two such awaits.                  *)
(***************************************************************************)
EXTENDS Integers, Sequences, FiniteSets, TLC

\* ---------------------------------------------------------------- bounds
MaxReq == 3
MaxTime == 1
MaxPage == 2
MaxClicks == 3

Reqs == 1..MaxReq
Urls == {"https://a.example/x", "https://b.example/y"}
Pages == 1..MaxPage

\* ------------------------------------------------------ program constants
MinPageSize == 1
MaxPageSize == 100
HTTP_200_OK == 200
HTTP_201_CREATED == 201
HTTP_303_SEE_OTHER == 303
HTTP_404_NOT_FOUND == 404
HTTP_500_ERROR == 500
BASE_URL == "http://localhost:8000"

PageSizes == {MinPageSize, 2, MaxPageSize}

\* generate_short_code draws 6 characters of ascii_letters + digits; the
\* model draws from three such codes, one of which begins with "api".
CodeSpace ==
    { <<"a","p","i","A","b","1">>,
      <<"a","b","c","1","2","3">>,
      <<"Z","9","z","0","Q","q">> }

ApiPrefix == <<"a","p","i">>

\* links, clicks: the committed rows of the two tables, in insertion order
\*   (id = position); "by" records the request that committed the row
\* req: per request, the handler's position (pc), its inputs and locals,
\*   its response, and what it observed (known, validated, seen, after)
\* now: the database clock, as read by the last commit (created_at)
VARIABLES links, clicks, req, now

vars == <<links, clicks, req, now>>

\* ---------------------------------------------------------------- helpers
Min(a, b) == IF a < b THEN a ELSE b

\* str.startswith
StartsWith(s, p) == Len(s) >= Len(p) /\ SubSeq(s, 1, Len(p)) = p

\* main.py: the root route refuses every path segment that begins with "api"
IsApiPath(short_code) == StartsWith(short_code, ApiPrefix)

\* the lookup as it would be if it compared against a re-normalised URL and
\* never matched
LinksByUrl_NoMatch(original_url) == <<>>

\* select(Link).where(Link.original_url == original_url)
LinksByUrl(original_url) ==
    SelectSeq(links, LAMBDA l : l.original_url = original_url)

\* the lookup as it would be without its WHERE clause
LinksByCode_AnyRow(short_code) == links

\* select(Link).where(Link.short_code == short_code)
LinksByCode(short_code) ==
    SelectSeq(links, LAMBDA l : l.short_code = short_code)

\* the column as it would be without unique=True
ShortCodeUnique_NoConstraint(short_code) == TRUE

\* links.short_code is declared unique=True: the INSERT is accepted only if
\* no committed row has the code
ShortCodeUnique(short_code) == Len(LinksByCode(short_code)) = 0

\* f"{base_url}/{short_code}"
ShortUrl(short_code) == <<BASE_URL, "/", short_code>>

NoCode == <<>>

IdleReq ==
    [ kind |-> "none", pc |-> "idle", route |-> "-",
      url |-> "", short_code |-> NoCode,
      link_id |-> 0, link_url |-> "", is_valid |-> FALSE,
      status |-> 0, detail |-> "", location |-> "", error |-> "none",
      resp_code |-> NoCode, resp_short_url |-> <<>>,
      known |-> FALSE, validated |-> FALSE, seen |-> 0, after |-> 0,
      page |-> 0, page_size |-> 0, total |-> 0, page_links |-> <<>>,
      total_pages |-> 0,
      li |-> 0, total_clicks |-> 0, valid_clicks |-> 0, stats |-> <<>>,
      redrawn |-> FALSE, rolled_back |-> FALSE, closed |-> FALSE ]

\* history: some committed link has this short code
Stored(c) == \E i \in 1..Len(links) : links[i].short_code = c

\* requests are taken from the pool in order
CanStart(r) ==
    /\ req[r].pc = "idle"
    /\ \A q \in Reqs : q < r => req[q].pc # "idle"

Finished(r) == req[r].pc \in {"done", "failed"}
InFlight(r) == req[r].pc \notin {"idle", "done", "failed"}

Init ==
    /\ links = <<>>
    /\ clicks = <<>>
    /\ req = [r \in Reqs |-> IdleReq]
    /\ now = 0

\* ------------------------------------------------------------ create_link
\* the handler as it would be if it stored the URL again when it is found
CreateFound_Reinsert(r, u) ==
    /\ CanStart(r)
    /\ Len(LinksByUrl(u)) = 1
    /\ LET existing_link == LinksByUrl(u)[1] IN
       /\ links' = Append(links, [existing_link EXCEPT !.id = Len(links) + 1,
                                                       !.by = r])
       /\ req' = [req EXCEPT ![r] =
                    [@ EXCEPT !.kind = "create", !.pc = "done", !.url = u,
                              !.status = HTTP_201_CREATED,
                              !.resp_code = existing_link.short_code,
                              !.resp_short_url = ShortUrl(existing_link.short_code),
                              !.seen = Len(links), !.after = Len(links) + 1]]
    /\ UNCHANGED <<clicks, now>>

\* POST /api/v1/link: the URL lookup finds exactly one row and returns it
CreateFound(r, u) ==
    /\ CanStart(r)
    /\ Len(LinksByUrl(u)) = 1
    /\ LET existing_link == LinksByUrl(u)[1] IN
       req' = [req EXCEPT ![r] =
                 [@ EXCEPT !.kind = "create", !.pc = "done", !.url = u,
                           !.status = HTTP_201_CREATED,
                           !.resp_code = existing_link.short_code,
                           !.resp_short_url = ShortUrl(existing_link.short_code),
                           !.seen = Len(links), !.after = Len(links)]]
    /\ UNCHANGED <<links, clicks, now>>

\* scalar_one_or_none raises MultipleResultsFound when the URL has two rows
CreateMultiple(r, u) ==
    /\ CanStart(r)
    /\ Len(LinksByUrl(u)) > 1
    /\ req' = [req EXCEPT ![r] =
                 [@ EXCEPT !.kind = "create", !.pc = "failed", !.url = u,
                           !.status = HTTP_500_ERROR,
                           !.error = "MultipleResultsFound",
                           !.seen = Len(links), !.after = Len(links)]]
    /\ UNCHANGED <<links, clicks, now>>

\* the URL lookup finds nothing: a first code is generated
CreateNew(r, u) ==
    /\ CanStart(r)
    /\ Len(LinksByUrl(u)) = 0
    /\ \E c \in CodeSpace :
         req' = [req EXCEPT ![r] =
                   [@ EXCEPT !.kind = "create", !.pc = "check", !.url = u,
                             !.short_code = c, !.seen = Len(links)]]
    /\ UNCHANGED <<links, clicks, now>>

\* while True: the code is in use, generate another one
CreateCodeTaken(r) ==
    /\ req[r].kind = "create" /\ req[r].pc = "check"
    /\ Len(LinksByCode(req[r].short_code)) > 0
    /\ \E c \in CodeSpace :
         req' = [req EXCEPT ![r] = [@ EXCEPT !.short_code = c, !.redrawn = TRUE]]
    /\ UNCHANGED <<links, clicks, now>>

\* the loop as it would be if it left without looking the code up
CreateCodeFree_NoLookup(r) ==
    /\ req[r].kind = "create" /\ req[r].pc = "check"
    /\ req' = [req EXCEPT ![r].pc = "commit"]
    /\ UNCHANGED <<links, clicks, now>>

\* while True: the code is unused, break
CreateCodeFree(r) ==
    /\ req[r].kind = "create" /\ req[r].pc = "check"
    /\ Len(LinksByCode(req[r].short_code)) = 0
    /\ req' = [req EXCEPT ![r].pc = "commit"]
    /\ UNCHANGED <<links, clicks, now>>

\* db.add; db.commit; db.refresh; return LinkResponse
CreateCommit(r) ==
    /\ req[r].kind = "create" /\ req[r].pc = "commit"
    /\ ShortCodeUnique(req[r].short_code)
    /\ \E t \in now..Min(now + 1, MaxTime) :
         /\ now' = t
         /\ links' = Append(links,
                [ id |-> Len(links) + 1, original_url |-> req[r].url,
                  short_code |-> req[r].short_code, created_at |-> t,
                  by |-> r ])
    /\ req' = [req EXCEPT ![r] =
                 [@ EXCEPT !.pc = "done", !.status = HTTP_201_CREATED,
                           !.resp_code = req[r].short_code,
                           !.resp_short_url = ShortUrl(req[r].short_code),
                           !.after = Len(links) + 1]]
    /\ UNCHANGED clicks

\* db.commit raises IntegrityError (unique constraint on short_code); nothing
\* in create_link or generate_short_link catches it
CreateConflict(r) ==
    /\ req[r].kind = "create" /\ req[r].pc = "commit"
    /\ ~ShortCodeUnique(req[r].short_code)
    /\ req' = [req EXCEPT ![r] =
                 [@ EXCEPT !.pc = "failed", !.status = HTTP_500_ERROR,
                           !.error = "IntegrityError",
                           !.after = Len(links)]]
    /\ UNCHANGED <<links, clicks, now>>

\* ------------------------------------------------- redirect_to_original_url
\* GET /{short_code} (main.py): a path segment that begins with "api" is
\* answered 404 "Not found" before any lookup
RedirectApiPath(r, c) ==
    /\ CanStart(r)
    /\ IsApiPath(c)
    /\ req' = [req EXCEPT ![r] =
                 [@ EXCEPT !.kind = "redirect", !.route = "root", !.pc = "done",
                           !.short_code = c,
                           !.known = Stored(c),
                           !.status = HTTP_404_NOT_FOUND,
                           !.detail = "Not found"]]
    /\ UNCHANGED <<links, clicks, now>>

\* the guard of the route: main.py checks the prefix, links.py
\* (GET /api/v1/{short_code}) does not
PassesGuard(route, c) == route = "v1" \/ ~IsApiPath(c)

\* get_link_by_short_code returns None: HTTPException(404)
RedirectNotFound(r, route, c) ==
    /\ CanStart(r)
    /\ PassesGuard(route, c)
    /\ Len(LinksByCode(c)) = 0
    /\ req' = [req EXCEPT ![r] =
                 [@ EXCEPT !.kind = "redirect", !.route = route, !.pc = "done",
                           !.short_code = c, !.known = Stored(c),
                           !.status = HTTP_404_NOT_FOUND,
                           !.detail = "Short link not found"]]
    /\ UNCHANGED <<links, clicks, now>>

\* the handler as it would be if it recorded the click without waiting for
\* the fraud check
RedirectResolve_NoValidate(r, route, c) ==
    /\ CanStart(r)
    /\ PassesGuard(route, c)
    /\ Len(LinksByCode(c)) > 0
    /\ LET link == LinksByCode(c)[1] IN
       req' = [req EXCEPT ![r] =
                 [@ EXCEPT !.kind = "redirect", !.route = route,
                           !.pc = "record", !.short_code = c,
                           !.known = Stored(c),
                           !.link_id = link.id,
                           !.link_url = link.original_url]]
    /\ UNCHANGED <<links, clicks, now>>

\* get_link_by_short_code returns the link
RedirectResolve(r, route, c) ==
    /\ CanStart(r)
    /\ PassesGuard(route, c)
    /\ Len(LinksByCode(c)) > 0
    /\ LET link == LinksByCode(c)[1] IN
       req' = [req EXCEPT ![r] =
                 [@ EXCEPT !.kind = "redirect", !.route = route,
                           !.pc = "validate", !.short_code = c,
                           !.known = Stored(c),
                           !.link_id = link.id,
                           !.link_url = link.original_url]]
    /\ UNCHANGED <<links, clicks, now>>

\* is_valid = await validate_click(ip_address, user_agent)
Validate(r, v) ==
    /\ req[r].kind = "redirect" /\ req[r].pc = "validate"
    /\ req' = [req EXCEPT ![r] =
                 [@ EXCEPT !.pc = "record", !.is_valid = v,
                           !.validated = TRUE]]
    /\ UNCHANGED <<links, clicks, now>>

\* validate_click raises: the exception leaves the handler
ValidateFails(r) ==
    /\ req[r].kind = "redirect" /\ req[r].pc = "validate"
    /\ req' = [req EXCEPT ![r] =
                 [@ EXCEPT !.pc = "failed", !.status = HTTP_500_ERROR,
                           !.error = "validate_click"]]
    /\ UNCHANGED <<links, clicks, now>>

\* the click as it would be if is_valid were not passed on: the column's
\* default (True) applies
NewClick_DefaultValid(r, t) ==
    [ id |-> Len(clicks) + 1, link_id |-> req[r].link_id,
      is_valid |-> TRUE, created_at |-> t, by |-> r ]

\* Click(link_id=link_id, ip_address=..., user_agent=..., is_valid=is_valid)
NewClick(r, t) ==
    [ id |-> Len(clicks) + 1, link_id |-> req[r].link_id,
      is_valid |-> req[r].is_valid, created_at |-> t, by |-> r ]

\* record_click: db.add(click); await db.commit()
RecordCommit(r) ==
    /\ req[r].kind = "redirect" /\ req[r].pc = "record"
    /\ \E t \in now..Min(now + 1, MaxTime) :
         /\ now' = t
         /\ clicks' = Append(clicks, NewClick(r, t))
    /\ req' = [req EXCEPT ![r].pc = "refresh"]
    /\ UNCHANGED links

\* db.commit raises: nothing was written, get_db rolls the session back
RecordCommitFails(r) ==
    /\ req[r].kind = "redirect" /\ req[r].pc = "record"
    /\ req' = [req EXCEPT ![r] =
                 [@ EXCEPT !.pc = "failed", !.status = HTTP_500_ERROR,
                           !.error = "record_click.commit"]]
    /\ UNCHANGED <<links, clicks, now>>

\* db.refresh(click) raises after the commit: get_db's rollback finds
\* nothing to undo, the committed click stays
RecordRefreshFails(r) ==
    /\ req[r].kind = "redirect" /\ req[r].pc = "refresh"
    /\ req' = [req EXCEPT ![r] =
                 [@ EXCEPT !.pc = "failed", !.status = HTTP_500_ERROR,
                           !.error = "record_click.refresh"]]
    /\ UNCHANGED <<links, clicks, now>>

\* db.refresh(click); return RedirectResponse(url=link.original_url, 303)
Respond(r) ==
    /\ req[r].kind = "redirect" /\ req[r].pc = "refresh"
    /\ req' = [req EXCEPT ![r] =
                 [@ EXCEPT !.pc = "done", !.status = HTTP_303_SEE_OTHER,
                           !.location = req[r].link_url]]
    /\ UNCHANGED <<links, clicks, now>>

\* ------------------------------------------------------------ get_analytics
\* select(func.count()).select_from(Link)
AnalyticsCount(r, page, page_size) ==
    /\ CanStart(r)
    /\ req' = [req EXCEPT ![r] =
                 [@ EXCEPT !.kind = "analytics", !.pc = "page",
                           !.page = page, !.page_size = page_size,
                           !.total = Len(links), !.seen = Len(links)]]
    /\ UNCHANGED <<links, clicks, now>>

\* the orders ORDER BY created_at DESC can return: rows with equal
\* created_at come in any order
IsPerm(f, n) == \A i, j \in 1..n : i # j => f[i] # f[j]

OrderedLinks ==
    LET n == Len(links) IN
    { [i \in 1..n |-> links[f[i]]] :
        f \in { g \in [1..n -> 1..n] :
                  /\ IsPerm(g, n)
                  /\ \A i, j \in 1..n :
                       i < j => links[g[i]].created_at >= links[g[j]].created_at } }

\* offset = (page - 1) * page_size
Offset(page, page_size) == (page - 1) * page_size

\* .offset(offset).limit(page_size)
PageOf(rows, page, page_size) ==
    SubSeq(rows, Offset(page, page_size) + 1,
           Min(Offset(page, page_size) + page_size, Len(rows)))

\* select(Link).order_by(Link.created_at.desc()).offset(offset).limit(page_size)
AnalyticsPage(r) ==
    /\ req[r].kind = "analytics" /\ req[r].pc = "page"
    /\ \E rows \in OrderedLinks :
         req' = [req EXCEPT ![r] =
                   [@ EXCEPT !.pc = IF PageOf(rows, req[r].page, req[r].page_size) = <<>>
                                    THEN "respond" ELSE "total",
                             !.li = 1,
                             !.page_links =
                                 [i \in 1..Len(PageOf(rows, req[r].page, req[r].page_size))
                                    |-> PageOf(rows, req[r].page, req[r].page_size)[i].id]]]
    /\ UNCHANGED <<links, clicks, now>>

\* ---------------------------------------------------- get_links_with_stats
\* settings.CREDIT_PER_CLICK, in cents
CREDIT_PER_CLICK == 5

\* created_at is a tick of the database clock; the clock starts in the
\* middle of December of EpochYear and a month lasts TicksPerMonth ticks
EpochYear == 2024
EpochMonth == 12
TicksPerMonth == 2

\* months from January of EpochYear to the month of tick t
MonthsSinceJanuary(t) == (EpochMonth - 1) + ((t + 1) \div TicksPerMonth)

YearOf(t) == EpochYear + (MonthsSinceJanuary(t) \div 12)
MonthOfYear(t) == (MonthsSinceJanuary(t) % 12) + 1

Digits == <<"0", "1", "2", "3", "4", "5", "6", "7", "8", "9">>
Digit(d) == Digits[d + 1]

\* strftime('%Y-%m', created_at) / TO_CHAR(created_at, 'YYYY-MM')
FormatMonth(t) ==
    LET y == YearOf(t)
        m == MonthOfYear(t)
    IN << Digit((y \div 1000) % 10), Digit((y \div 100) % 10),
          Digit((y \div 10) % 10), Digit(y % 10), "-",
          Digit(m \div 10), Digit(m % 10) >>

\* the code point of a character of a month string
CharCode(ch) ==
    IF ch = "-" THEN 45 ELSE 47 + (CHOOSE i \in 1..10 : Digits[i] = ch)

\* ORDER BY month DESC
StrLess_Desc(a, b) ==
    \E k \in 1..Min(Len(a), Len(b)) :
        /\ SubSeq(a, 1, k - 1) = SubSeq(b, 1, k - 1)
        /\ CharCode(a[k]) > CharCode(b[k])

\* ORDER BY month: text comparison of the month strings (equal lengths)
StrLess(a, b) ==
    \E k \in 1..Min(Len(a), Len(b)) :
        /\ SubSeq(a, 1, k - 1) = SubSeq(b, 1, k - 1)
        /\ CharCode(a[k]) < CharCode(b[k])

\* FROM clicks WHERE link_id = :link_id
ClicksOf(link_id) == SelectSeq(clicks, LAMBDA c : c.link_id = link_id)

\* select(func.count()).select_from(Click).where(Click.link_id == link.id)
CountTotal(link_id) == Len(ClicksOf(link_id))

\* the count as it would be without the is_valid condition
CountValid_NoFilter(link_id) == Len(ClicksOf(link_id))

\* ... .where(Click.link_id == link.id, Click.is_valid == True)
CountValid(link_id) ==
    Len(SelectSeq(clicks, LAMBDA c : c.link_id = link_id /\ c.is_valid))

\* valid_clicks * (credit_per_click / 100): an amount in dollars, kept as
\* the fraction <<numerator, denominator>>
Earnings(valid_clicks) == <<valid_clicks * CREDIT_PER_CLICK, 100>>

\* SELECT month, SUM(CASE WHEN is_valid THEN 1 ELSE 0 END) FROM clicks
\* WHERE link_id = :link_id GROUP BY month ORDER BY month
\* (COUNT(*) FILTER (WHERE is_valid = TRUE) on PostgreSQL): one row per
\* month in which the link has a click, valid or not
MonthlyData(link_id) ==
    LET rows == ClicksOf(link_id)
        months == { FormatMonth(rows[k].created_at) : k \in 1..Len(rows) }
        n == Cardinality(months)
        sorted == CHOOSE s \in [1..n -> months] :
                      \A i, j \in 1..n : i < j => StrLess(s[i], s[j])
    IN [ i \in 1..n |->
           [ month |-> sorted[i],
             valid_clicks |->
                 Cardinality({ k \in 1..Len(rows) :
                                 /\ FormatMonth(rows[k].created_at) = sorted[i]
                                 /\ rows[k].is_valid }) ] ]

\* [MonthlyStats(month, valid_clicks, earnings) for month, valid_clicks in monthly_data]
MonthlyStats(monthly_data) ==
    [ i \in 1..Len(monthly_data) |->
        [ month |-> monthly_data[i].month,
          valid_clicks |-> monthly_data[i].valid_clicks,
          earnings |-> Earnings(monthly_data[i].valid_clicks) ] ]

\* the link the loop is at
CurrentLink(r) == req[r].page_links[req[r].li]

\* total_result = await db.execute(total_stmt)
AnalyticsTotal(r) ==
    /\ req[r].kind = "analytics" /\ req[r].pc = "total"
    /\ req' = [req EXCEPT ![r] =
                 [@ EXCEPT !.pc = "valid",
                           !.total_clicks = CountTotal(CurrentLink(r))]]
    /\ UNCHANGED <<links, clicks, now>>

\* valid_result = await db.execute(valid_stmt)
AnalyticsValid(r) ==
    /\ req[r].kind = "analytics" /\ req[r].pc = "valid"
    /\ req' = [req EXCEPT ![r] =
                 [@ EXCEPT !.pc = "monthly",
                           !.valid_clicks = CountValid(CurrentLink(r))]]
    /\ UNCHANGED <<links, clicks, now>>

\* monthly_result = await db.execute(monthly_stmt, ...); link_stats.append(...)
AnalyticsMonthly(r) ==
    /\ req[r].kind = "analytics" /\ req[r].pc = "monthly"
    /\ req' = [req EXCEPT ![r] =
                 [@ EXCEPT !.pc = IF req[r].li = Len(req[r].page_links)
                                    THEN "respond" ELSE "total",
                           !.li = req[r].li + 1,
                           !.stats = Append(req[r].stats,
                               [ link_id |-> CurrentLink(r),
                                 total_clicks |-> req[r].total_clicks,
                                 valid_clicks |-> req[r].valid_clicks,
                                 total_earnings |-> Earnings(req[r].valid_clicks),
                                 monthly_stats |-> MonthlyStats(MonthlyData(CurrentLink(r))) ])]]
    /\ UNCHANGED <<links, clicks, now>>

\* floor instead of ceiling division
TotalPages_Floor(total, page_size) == total \div page_size

\* total_pages = (total + page_size - 1) // page_size
TotalPages(total, page_size) == (total + page_size - 1) \div page_size

\* return PaginatedLinkStats(links, total, page, page_size, total_pages)
AnalyticsRespond(r) ==
    /\ req[r].kind = "analytics" /\ req[r].pc = "respond"
    /\ req' = [req EXCEPT ![r] =
                 [@ EXCEPT !.pc = "done", !.status = HTTP_200_OK,
                           !.total_pages = TotalPages(req[r].total, req[r].page_size),
                           !.after = Len(links)]]
    /\ UNCHANGED <<links, clicks, now>>

\* ------------------------------------------------------------------ get_db
\* the handler left by an exception (HTTPException included), which FastAPI
\* throws into the dependency at its yield
Raised(r) == req[r].pc = "failed" \/ req[r].status = HTTP_404_NOT_FOUND

\* except Exception: await session.rollback(); raise
GetDbRollback(r) ==
    /\ Finished(r) /\ Raised(r)
    /\ ~req[r].rolled_back /\ ~req[r].closed
    /\ req' = [req EXCEPT ![r].rolled_back = TRUE]
    /\ UNCHANGED <<links, clicks, now>>

\* get_db as it would be without the finally clause: the session is closed
\* only when the handler returns
GetDbClose_OnReturnOnly(r) ==
    /\ Finished(r) /\ ~Raised(r)
    /\ ~req[r].closed
    /\ req' = [req EXCEPT ![r].closed = TRUE]
    /\ UNCHANGED <<links, clicks, now>>

\* finally: await session.close()
GetDbClose(r) ==
    /\ Finished(r)
    /\ Raised(r) => req[r].rolled_back
    /\ ~req[r].closed
    /\ req' = [req EXCEPT ![r].closed = TRUE]
    /\ UNCHANGED <<links, clicks, now>>

\* ---------------------------------------------------------- specifications
Routes == {"root", "v1"}

Next ==
    \E r \in Reqs :
        \/ \E u \in Urls : CreateFound(r, u)
        \/ \E u \in Urls : CreateMultiple(r, u)
        \/ \E u \in Urls : CreateNew(r, u)
        \/ CreateCodeTaken(r)
        \/ CreateCodeFree(r)
        \/ CreateCommit(r)
        \/ CreateConflict(r)
        \/ \E c \in CodeSpace : RedirectApiPath(r, c)
        \/ \E route \in Routes, c \in CodeSpace : RedirectNotFound(r, route, c)
        \/ \E route \in Routes, c \in CodeSpace : RedirectResolve(r, route, c)
        \/ \E v \in BOOLEAN : Validate(r, v)
        \/ ValidateFails(r)
        \/ RecordCommit(r)
        \/ RecordCommitFails(r)
        \/ RecordRefreshFails(r)
        \/ Respond(r)
        \/ \E p \in Pages, s \in PageSizes : AnalyticsCount(r, p, s)
        \/ AnalyticsPage(r)
        \/ AnalyticsTotal(r)
        \/ AnalyticsValid(r)
        \/ AnalyticsMonthly(r)
        \/ AnalyticsRespond(r)

\* the handlers of concurrent requests; get_db's rollback and close act on
\* the request's own session only and are followed in NextSeq
Spec == Init /\ [][Next]_vars

\* requests served one at a time: a request is taken up only when no other
\* request is in flight or still holds its session, so CreateMultiple and
\* CreateConflict cannot occur
Quiet(r) ==
    \A q \in Reqs \ {r} : ~InFlight(q) /\ (Finished(q) => req[q].closed)

NextSeq ==
    \E r \in Reqs :
        \/ \E u \in Urls : Quiet(r) /\ CreateFound(r, u)
        \/ \E u \in Urls : Quiet(r) /\ CreateNew(r, u)
        \/ CreateCodeTaken(r)
        \/ CreateCodeFree(r)
        \/ CreateCommit(r)
        \/ \E c \in CodeSpace : Quiet(r) /\ RedirectApiPath(r, c)
        \/ \E route \in Routes, c \in CodeSpace :
               Quiet(r) /\ RedirectNotFound(r, route, c)
        \/ \E route \in Routes, c \in CodeSpace :
               Quiet(r) /\ RedirectResolve(r, route, c)
        \/ \E v \in BOOLEAN : Validate(r, v)
        \/ ValidateFails(r)
        \/ RecordCommit(r)
        \/ RecordCommitFails(r)
        \/ RecordRefreshFails(r)
        \/ Respond(r)
        \/ \E p \in Pages, s \in PageSizes : Quiet(r) /\ AnalyticsCount(r, p, s)
        \/ AnalyticsPage(r)
        \/ AnalyticsTotal(r)
        \/ AnalyticsValid(r)
        \/ AnalyticsMonthly(r)
        \/ AnalyticsRespond(r)
        \/ GetDbRollback(r)
        \/ GetDbClose(r)

SpecSeq == Init /\ [][NextSeq]_vars

\* the generator draws a code that is not in use
DrawsUnused(r) == CreateCodeTaken(r) /\ ~Stored(req'[r].short_code)

\* the event loop resumes every coroutine whose await has completed, and
\* random.choices does not avoid the unused codes forever
SpecLive ==
    /\ Init
    /\ [][NextSeq]_vars
    /\ \A r \in Reqs :
         /\ WF_vars(GetDbRollback(r))
         /\ WF_vars(GetDbClose(r))
         /\ WF_vars(CreateCodeFree(r))
         /\ WF_vars(CreateCommit(r))
         /\ WF_vars(DrawsUnused(r))

\* analytics over a populated store, as the analytics tests run it: the
\* store holds up to one link per URL and up to MaxClicks clicks on them,
\* rows in insertion order with the clock never running backwards, and the
\* requests are analytics requests served one at a time, one per page
SeedUrls == CHOOSE s \in [1..Cardinality(Urls) -> Urls] :
                \A i, j \in 1..Cardinality(Urls) : i # j => s[i] # s[j]

SeedCodes == CHOOSE s \in [1..Cardinality(CodeSpace) -> CodeSpace] :
                 \A i, j \in 1..Cardinality(CodeSpace) : i # j => s[i] # s[j]

Times == 0..MaxTime

SeedLinks ==
    UNION { { [ i \in 1..n |->
                [ id |-> i, original_url |-> SeedUrls[i],
                  short_code |-> SeedCodes[i], created_at |-> t[i], by |-> 0 ] ] :
              t \in [1..n -> Times] } :
            n \in 0..Cardinality(Urls) }

NonDecreasing(rows) ==
    \A i, j \in 1..Len(rows) : i < j => rows[i].created_at <= rows[j].created_at

SeedClicks(ls) ==
    { [ k \in 1..Len(c) |->
          [ id |-> k, link_id |-> c[k].link_id, is_valid |-> c[k].is_valid,
            created_at |-> c[k].created_at, by |-> 0 ] ] :
        c \in UNION { [1..m -> [ link_id : 1..Len(ls), is_valid : BOOLEAN,
                                  created_at : Times ]] : m \in 0..MaxClicks } }

LastTime(rows) == IF rows = <<>> THEN 0 ELSE rows[Len(rows)].created_at

InitStats ==
    /\ links \in { ls \in SeedLinks : NonDecreasing(ls) }
    /\ clicks \in { cs \in SeedClicks(links) :
                       /\ NonDecreasing(cs)
                       /\ \A k \in 1..Len(cs) :
                            links[cs[k].link_id].created_at <= cs[k].created_at }
    /\ req = [r \in Reqs |-> IdleReq]
    /\ now = IF LastTime(clicks) > LastTime(links)
             THEN LastTime(clicks) ELSE LastTime(links)

\* enough requests to read every page of the listing once
PageReqs == { r \in Reqs : r <= MaxPage }

NextStats ==
    \E r \in PageReqs :
        \/ \E p \in Pages, s \in PageSizes : Quiet(r) /\ AnalyticsCount(r, p, s)
        \/ AnalyticsPage(r)
        \/ AnalyticsTotal(r)
        \/ AnalyticsValid(r)
        \/ AnalyticsMonthly(r)
        \/ AnalyticsRespond(r)
        \/ GetDbClose(r)

SpecStats == InitStats /\ [][NextStats]_vars

\* ------------------------------------------------------------------ claims
LinkIdx == 1..Len(links)
ClickIdx == 1..Len(clicks)

\* the clicks request r has committed
ClicksBy(r) == { k \in ClickIdx : clicks[k].by = r }

\* C1: in every reachable state, under every interleaving of create-link
\* requests, no two stored links have the same short code.
C1_ShortCodeUnique ==
    \A i, j \in LinkIdx :
        i # j => links[i].short_code # links[j].short_code

\* two links are stored and a racing insert of a taken code was rejected
C1_Witness ==
    /\ Len(links) >= 2
    /\ \E r \in Reqs : req[r].error = "IntegrityError"

\* C2: of two create_link calls for the same URL, the second starting after
\* the first returned, the second returns the first's short code and stores
\* no link.
C2_SecondCallReuses ==
    \A r1, r2 \in Reqs :
        ( /\ r1 < r2
          /\ req[r1].kind = "create" /\ req[r1].pc = "done"
          /\ req[r2].kind = "create" /\ req[r2].pc = "done"
          /\ req[r1].url = req[r2].url )
        => /\ req[r2].resp_code = req[r1].resp_code
           /\ req[r2].after = req[r2].seen

C2_Witness ==
    \E r1, r2 \in Reqs :
        /\ r1 < r2
        /\ req[r1].kind = "create" /\ req[r1].pc = "done"
        /\ req[r2].kind = "create" /\ req[r2].pc = "done"
        /\ req[r1].url = req[r2].url
        /\ Len(links) >= 1

\* C3: a GET /{short_code} request for the short code of a stored link,
\* whatever code the generator drew, that ends without a dependency failure
\* ends with a 303 redirect whose Location is the link's original URL.
C3_RoundTrip ==
    \A r \in Reqs :
        ( /\ req[r].kind = "redirect" /\ req[r].route = "root"
          /\ req[r].pc = "done"
          /\ req[r].known )
        => /\ req[r].status = HTTP_303_SEE_OTHER
           /\ \E i \in LinkIdx :
                /\ links[i].short_code = req[r].short_code
                /\ links[i].original_url = req[r].location

\* the response to a request for a code no link had: 404 with this message
C4_Detail(r) ==
    IF req[r].route = "root" /\ StartsWith(req[r].short_code, ApiPrefix)
    THEN "Not found"
    ELSE "Short link not found"

C5_OneLinkPerUrl ==
    \A i, j \in LinkIdx :
        i # j => links[i].original_url # links[j].original_url

\* C5 amended: two stored links have the same original URL only if the
\* create_link call that stored the later one looked the URL up before the
\* earlier one was committed.
C5_OneLinkPerUrlUnlessOverlap ==
    \A i, j \in LinkIdx :
        ( i < j /\ links[i].original_url = links[j].original_url )
        => req[links[j].by].seen < i

\* two racing create_link calls have stored the same URL twice
C5_Witness ==
    \E i, j \in LinkIdx :
        /\ i < j
        /\ links[i].original_url = links[j].original_url

\* C6: when the store rejects create_link's insert because the short code
\* was taken between the check and the commit, the violation is caught and
\* retried; no create_link call ends in failure because of it.
C6_ConflictNeverPropagates ==
    \A r \in Reqs :
        ~( /\ req[r].kind = "create"
           /\ req[r].pc = "failed"
           /\ req[r].error = "IntegrityError" )

\* the redirect requests that ended with a redirect response for link i
RedirectsTo(i) ==
    { r \in Reqs : /\ req[r].kind = "redirect" /\ req[r].pc = "done"
                   /\ req[r].status = HTTP_303_SEE_OTHER
                   /\ req[r].link_id = i }

\* C7: every redirect request that ended with a redirect response has added
\* exactly one click for its link, and once no request is in flight the
\* clicks stored for a link are as many as the redirect requests that
\* completed for it.
C7_OneClickPerRedirect ==
    /\ \A r \in Reqs :
         ( req[r].kind = "redirect" /\ req[r].pc = "done"
           /\ req[r].status = HTTP_303_SEE_OTHER )
         => /\ Cardinality(ClicksBy(r)) = 1
            /\ \A k \in ClicksBy(r) : clicks[k].link_id = req[r].link_id
    /\ (\A r \in Reqs : ~InFlight(r))
         => \A i \in LinkIdx :
              Cardinality({ k \in ClickIdx : clicks[k].link_id = i })
                = Cardinality(RedirectsTo(i))

\* C8: every stored click has the link id its request resolved from its
\* short code and the verdict the fraud check returned to that request.
C8_ClickMatchesItsRequest ==
    \A k \in ClickIdx :
        LET r == clicks[k].by IN
        /\ req[r].kind = "redirect"
        /\ req[r].validated
        /\ clicks[k].is_valid = req[r].is_valid
        /\ clicks[k].link_id = req[r].link_id
        /\ clicks[k].link_id \in LinkIdx
        /\ links[clicks[k].link_id].short_code = req[r].short_code

\* two redirect requests overlapped (the later one committed first) and
\* got different verdicts
C8_Witness ==
    /\ Len(clicks) >= 2
    /\ clicks[1].by > clicks[2].by
    /\ clicks[1].is_valid # clicks[2].is_valid

\* C9: a redirect request for a stored link in which the fraud check or the
\* click recorder failed issues no redirect and leaves no click of its own
\* in the store.
C9_FailureLeavesNoClick ==
    \A r \in Reqs :
        ( req[r].kind = "redirect" /\ req[r].pc = "failed" )
        => /\ req[r].status # HTTP_303_SEE_OTHER
           /\ req[r].location = ""
           /\ ClicksBy(r) = {}

\* the least n with n * page_size >= total
Ceil(total, page_size) ==
    CHOOSE n \in 0..total :
        /\ n * page_size >= total
        /\ (n > 0 => (n - 1) * page_size < total)

\* C10: an analytics response has total = number of stored links,
\* total_pages = ceil(total / page_size) (0 without links), and an empty
\* links list when page > total_pages.
C10_Pagination ==
    \A r \in Reqs :
        ( req[r].kind = "analytics" /\ req[r].pc = "done" )
        => /\ req[r].total = req[r].after
           /\ req[r].total_pages = Ceil(req[r].total, req[r].page_size)
           /\ (req[r].total = 0 => req[r].total_pages = 0)
           /\ (req[r].page > req[r].total_pages => req[r].page_links = <<>>)

\* a page beyond the last of a non-empty store, total not a multiple of
\* page_size
C10_Witness ==
    \E r \in Reqs :
        /\ req[r].kind = "analytics" /\ req[r].pc = "done"
        /\ req[r].total >= 1
        /\ req[r].total % req[r].page_size # 0
        /\ req[r].page > req[r].total_pages
        /\ req[r].page_links = <<>>

\* the finished analytics requests
AnalyticsDone == { r \in Reqs : req[r].kind = "analytics" /\ req[r].pc = "done" }

\* the stored clicks of a link, all of them and the valid ones
StoredClicks(link_id) == { k \in ClickIdx : clicks[k].link_id = link_id }
StoredValid(link_id) == { k \in StoredClicks(link_id) : clicks[k].is_valid }

\* an amount <<numerator, denominator>> equals count times the credit in
\* cents, converted to dollars
IsCredit(amount, count) == amount[1] * 100 = count * CREDIT_PER_CLICK * amount[2]

\* C11: for every link on an analytics page, total_clicks is the number of
\* clicks stored for the link, valid_clicks is the number of those with
\* is_valid true, and earnings is valid_clicks times the credit per click,
\* converted from cents.
C11_StatsMatchClicks ==
    \A r \in AnalyticsDone :
        /\ Len(req[r].stats) = Len(req[r].page_links)
        /\ \A k \in 1..Len(req[r].stats) :
             LET e == req[r].stats[k] IN
             /\ e.link_id = req[r].page_links[k]
             /\ e.total_clicks = Cardinality(StoredClicks(e.link_id))
             /\ e.valid_clicks = Cardinality(StoredValid(e.link_id))
             /\ IsCredit(e.total_earnings, e.valid_clicks)

\* a link with clicks [valid, valid, invalid] is reported with 3 and 2
C11_Witness ==
    \E r \in AnalyticsDone : \E k \in 1..Len(req[r].stats) :
        /\ req[r].stats[k].total_clicks = 3
        /\ req[r].stats[k].valid_clicks = 2
        /\ req[r].stats[k].total_earnings = <<2 * CREDIT_PER_CLICK, 100>>

\* C12: monthly_stats has an entry for a month only if the link has a valid
\* click in that month: no entry has valid_clicks = 0, and a month with only
\* invalid clicks does not appear.
C12_NoZeroMonth ==
    \A r \in AnalyticsDone : \A k \in 1..Len(req[r].stats) :
        LET e == req[r].stats[k] IN
        \A m \in 1..Len(e.monthly_stats) :
            /\ e.monthly_stats[m].valid_clicks > 0
            /\ \E c \in StoredValid(e.link_id) :
                 FormatMonth(clicks[c].created_at) = e.monthly_stats[m].month

\* the value of a digit character
DigitValue(ch) == (CHOOSE i \in 1..10 : Digits[i] = ch) - 1

\* the calendar month a "YYYY-MM" string names, as months since year 0
MonthNumber(s) ==
    12 * (1000 * DigitValue(s[1]) + 100 * DigitValue(s[2])
            + 10 * DigitValue(s[3]) + DigitValue(s[4]))
    + 10 * DigitValue(s[6]) + DigitValue(s[7])

RECURSIVE SumValid(_)
SumValid(ms) ==
    IF ms = <<>> THEN 0 ELSE ms[1].valid_clicks + SumValid(Tail(ms))

\* C13: computed with no concurrent writes, a link's monthly_stats are in
\* strictly ascending calendar-month order, each entry's valid_clicks is the
\* number of the link's valid clicks created in that month, its earnings is
\* that count times the credit per click, and the entries' valid_clicks sum
\* to the link's valid_clicks.
C13_MonthlyBreakdown ==
    \A r \in AnalyticsDone : \A k \in 1..Len(req[r].stats) :
        LET e == req[r].stats[k]
            ms == e.monthly_stats
        IN /\ \A i, j \in 1..Len(ms) :
                i < j => MonthNumber(ms[i].month) < MonthNumber(ms[j].month)
           /\ \A i \in 1..Len(ms) :
                /\ ms[i].valid_clicks =
                       Cardinality({ c \in StoredValid(e.link_id) :
                           FormatMonth(clicks[c].created_at) = ms[i].month })
                /\ IsCredit(ms[i].earnings, ms[i].valid_clicks)
           /\ SumValid(ms) = e.valid_clicks

\* a link with valid clicks in two months, one of them across the new year
C13_Witness ==
    \E r \in AnalyticsDone : \E k \in 1..Len(req[r].stats) :
        LET ms == req[r].stats[k].monthly_stats IN
        /\ Len(ms) = 2
        /\ ms[1].valid_clicks > 0 /\ ms[2].valid_clicks > 0
        /\ SubSeq(ms[1].month, 1, 4) # SubSeq(ms[2].month, 1, 4)

\* the finished analytics requests that asked for pages of this size
PagesRead(s) == { req[r].page : r \in { q \in AnalyticsDone : req[q].page_size = s } }

\* C14: the listing is ordered by creation time, most recent first, ties in
\* insertion order, so over a fixed store the order is deterministic and
\* the pages 1..total_pages of one page size return every stored link
\* exactly once.
C14_ListingOrder ==
    /\ \A r \in AnalyticsDone :
         \A i, j \in 1..Len(req[r].page_links) :
            i < j =>
              LET a == links[req[r].page_links[i]]
                  b == links[req[r].page_links[j]]
              IN \/ a.created_at > b.created_at
                 \/ a.created_at = b.created_at /\ a.id < b.id
    /\ \A r1, r2 \in AnalyticsDone :
         (r1 # r2 /\ req[r1].page_size = req[r2].page_size) =>
            IF req[r1].page = req[r2].page
            THEN req[r1].page_links = req[r2].page_links
            ELSE \A i \in 1..Len(req[r1].page_links),
                    j \in 1..Len(req[r2].page_links) :
                     req[r1].page_links[i] # req[r2].page_links[j]
    /\ \A s \in PageSizes :
         (\A p \in 1..TotalPages(Len(links), s) : p \in PagesRead(s)) =>
            \A i \in LinkIdx :
               \E r \in AnalyticsDone :
                  /\ req[r].page_size = s
                  /\ \E k \in 1..Len(req[r].page_links) : req[r].page_links[k] = i

\* the request whose handler takes this step
Steps(r) == req'[r] # req[r]

\* a create_link call whose URL lookup finds the URL stored
StartsOnStoredUrl(r) ==
    /\ req[r].pc = "idle" /\ req'[r].kind = "create"
    /\ \E i \in LinkIdx : links[i].original_url = req'[r].url

\* C15: a stored link stays in the store with its id, URL, short code and
\* created_at in every later state; create_link on a stored URL, every
\* redirect request (found or not) and every analytics request leave the
\* stored links unchanged, and analytics requests leave the stored clicks
\* unchanged as well.
C15_Frame ==
    [][ /\ Len(links') >= Len(links)
        /\ \A i \in LinkIdx :
             /\ links'[i].id = links[i].id
             /\ links'[i].original_url = links[i].original_url
             /\ links'[i].short_code = links[i].short_code
             /\ links'[i].created_at = links[i].created_at
        /\ \A r \in Reqs :
             Steps(r) =>
               /\ req'[r].kind \in {"redirect", "analytics"} => links' = links
               /\ req'[r].kind = "analytics" => clicks' = clicks
               /\ StartsOnStoredUrl(r) => links' = links
      ]_vars

\* a link is stored, a create_link call found its URL, a redirect to it was
\* served and recorded
C15_Witness ==
    /\ Len(links) = 1 /\ Len(clicks) = 1
    /\ \E r1, r2 \in Reqs :
         /\ req[r1].kind = "create" /\ req[r1].pc = "done"
         /\ req[r1].short_code = NoCode
         /\ req[r1].resp_code = links[1].short_code
         /\ req[r2].kind = "redirect" /\ req[r2].pc = "done"
         /\ req[r2].status = HTTP_303_SEE_OTHER

\* the positions a redirect request passes through, in order
PipelineOrder ==
    { <<"idle", "validate">>, <<"validate", "record">>,
      <<"record", "refresh">>, <<"refresh", "done">> }

\* the steps at which a dependency raises
PipelineAborts ==
    { <<"validate", "failed">>, <<"record", "failed">>, <<"refresh", "failed">> }

\* C16: within one redirect request that resolves to a stored link the steps
\* happen in the order resolve, validate, record, respond: the click is
\* stored only after the fraud check returned its verdict, the redirect
\* response is issued only after the click was committed, and no step is
\* skipped or reordered.
C16_PipelineOrder ==
    [][ \A r \in Reqs :
          ( Steps(r) /\ req'[r].kind = "redirect" /\ req'[r].link_id # 0 ) =>
            /\ req'[r].pc # req[r].pc =>
                  <<req[r].pc, req'[r].pc>> \in PipelineOrder \cup PipelineAborts
            /\ ClicksBy(r)' # ClicksBy(r) =>
                  /\ req[r].validated
                  /\ req[r].pc = "record" /\ req'[r].pc = "refresh"
            /\ req'[r].status = HTTP_303_SEE_OTHER =>
                  /\ req[r].validated
                  /\ ClicksBy(r) # {}
                  /\ ClicksBy(r)' = ClicksBy(r)
      ]_vars

\* a redirect went through all four steps
C16_Witness ==
    \E r \in Reqs :
        /\ req[r].kind = "redirect" /\ req[r].pc = "done"
        /\ req[r].status = HTTP_303_SEE_OTHER
        /\ req[r].validated
        /\ Cardinality(ClicksBy(r)) = 1

\* C17: every session get_db hands to a request is eventually closed, when
\* the handler returns and on every path where it raises; when it raises,
\* the session is rolled back before it is closed and the exception goes on
\* to the caller.
C17_SessionClosed ==
    /\ \A r \in Reqs : Finished(r) ~> req[r].closed
    /\ [](\A r \in Reqs :
            req[r].closed =>
              /\ Finished(r)
              /\ Raised(r) => /\ req[r].rolled_back
                              /\ req[r].status \in {HTTP_404_NOT_FOUND, HTTP_500_ERROR})
    /\ [][ \A r \in Reqs :
             (req'[r].rolled_back /\ ~req[r].rolled_back) =>
                ~req[r].closed /\ ~req'[r].closed /\ Raised(r) ]_vars

\* one session was closed after a rollback, another after a normal return
C17_Witness ==
    \E r1, r2 \in Reqs :
        /\ req[r1].closed /\ req[r1].pc = "failed" /\ req[r1].rolled_back
        /\ req[r2].closed /\ req[r2].pc = "done" /\ ~Raised(r2)
        /\ ~req[r2].rolled_back

\* C18: create_link for a URL with no stored link terminates, storing a link
\* whose short code no other stored link had, whenever some code is unused
\* and the generator eventually draws an unused code; the loop is left only
\* on a code that the lookup found unused.
C18_LoopTerminates ==
    /\ \A r \in Reqs :
         ( /\ req[r].kind = "create" /\ req[r].pc = "check"
           /\ \E c \in CodeSpace : ~Stored(c) )
         ~> ( /\ req[r].pc = "done"
              /\ \E i \in LinkIdx :
                   /\ links[i].by = r
                   /\ links[i].short_code = req[r].resp_code
                   /\ \A j \in LinkIdx \ {i} :
                        links[j].short_code # links[i].short_code )
    /\ [][ \A r \in Reqs :
             (req[r].pc = "check" /\ req'[r].pc # "check") =>
                /\ req'[r].pc = "commit"
                /\ req'[r].short_code = req[r].short_code
                /\ ~Stored(req[r].short_code) ]_vars

\* a call drew a code in use, drew again, and stored its link
C18_Witness ==
    \E r \in Reqs :
        /\ req[r].kind = "create" /\ req[r].pc = "done"
        /\ req[r].redrawn
        /\ \E i \in LinkIdx : links[i].by = r

\* the create_link calls that ended after their URL lookup found the URL
\* stored: they never generated a code
EndedOnStoredUrl ==
    { r \in Reqs : req[r].kind = "create" /\ Finished(r) /\ req[r].short_code = NoCode }

\* C19: in every reachable state, also after interleaved create_link calls
\* for one URL, a create_link call for a URL that has a stored link returns
\* successfully with the short code of a stored link for that URL; it never
\* fails.
C19_StoredUrlSucceeds ==
    \A r \in EndedOnStoredUrl :
        /\ req[r].pc = "done"
        /\ req[r].status = HTTP_201_CREATED
        /\ \E i \in LinkIdx :
             /\ links[i].original_url = req[r].url
             /\ links[i].short_code = req[r].resp_code

\* C20: in every analytics response the total_clicks, valid_clicks and
\* monthly_stats of a link describe one set of clicks: valid_clicks is at
\* most total_clicks and the monthly valid_clicks sum to valid_clicks, also
\* when redirects commit clicks for the link while the analytics request
\* runs its per-link queries.
C20_OneSnapshot ==
    \A r \in AnalyticsDone : \A k \in 1..Len(req[r].stats) :
        LET e == req[r].stats[k] IN
        /\ e.valid_clicks <= e.total_clicks
        /\ SumValid(e.monthly_stats) = e.valid_clicks
====
